---- MODULE Spec2Model ----
(***************************************************************************)
(* Model of lingpy.basic.dictionary.Dictionary: the alias-aware column     *)
(* registry (_header, header, _alias, _alias2, entries), the row store     *)
(* (_data) and the operations add_entries, tokenize and get_tuples.        *)
(*                                                                         *)
(* A Python str is a sequence of one-character strings, so that lower(),   *)
(* upper(), split() and the substring test are computed and not assumed.   *)
(* A Python value stored in a row is tagged: [t |-> "str", v |-> chars] or *)
(* [t |-> "list", v |-> sequence of chars-sequences].                      *)
(***************************************************************************)
EXTENDS Integers, Sequences, FiniteSets, TLC

VARIABLES
  _header,   \* every spelling of every column |-> column index
  header,    \* canonical column name |-> column index
  _alias,    \* spelling |-> canonical column name
  _alias2,   \* canonical column name |-> list of its spellings
  entries,   \* the sorted list of column names
  _data,     \* row key |-> list of values
  call,      \* the last operation called: its arguments and how it ended
  failed,    \* some operation so far was ended by an exception
  ncalls     \* the number of operations called so far

vars == <<_header, header, _alias, _alias2, entries, _data, call, failed, ncalls>>

registry == <<_header, header, _alias, _alias2, entries>>

(***************************************************************************)
(* Bounds of the model.                                                    *)
(***************************************************************************)
\* number of operations called on one Dictionary
MaxCalls == 2
\* number of answers the user can give to the override prompts of one call
MaxAnswers == 2

(***************************************************************************)
(* Python str operations.                                                  *)
(***************************************************************************)
\* the ASCII letters: <<lower, upper>>
CasePairs ==
  { <<"a","A">>, <<"b","B">>, <<"c","C">>, <<"d","D">>, <<"e","E">>,
    <<"f","F">>, <<"g","G">>, <<"h","H">>, <<"i","I">>, <<"j","J">>,
    <<"k","K">>, <<"l","L">>, <<"m","M">>, <<"n","N">>, <<"o","O">>,
    <<"p","P">>, <<"q","Q">>, <<"r","R">>, <<"s","S">>, <<"t","T">>,
    <<"u","U">>, <<"v","V">>, <<"w","W">>, <<"x","X">>, <<"y","Y">>,
    <<"z","Z">> }

LowerMap ==
  [c \in { p[2] : p \in CasePairs } |-> (CHOOSE p \in CasePairs : p[2] = c)[1]]

UpperMap ==
  [c \in { p[1] : p \in CasePairs } |-> (CHOOSE p \in CasePairs : p[1] = c)[2]]

\* a character without a case (a comma, a space) is left as it is
LowerChar(c) == IF c \in DOMAIN LowerMap THEN LowerMap[c] ELSE c

UpperChar(c) == IF c \in DOMAIN UpperMap THEN UpperMap[c] ELSE c

\* str.lower()
Lower(s) == [i \in 1..Len(s) |-> LowerChar(s[i])]

\* str.upper()
Upper(s) == [i \in 1..Len(s) |-> UpperChar(s[i])]

\* c in s, for a one-character c
HasChar(c, s) == \E i \in 1..Len(s) : s[i] = c

\* position of the first c in s (0 when there is none)
FindChar(c, s) ==
  IF HasChar(c, s)
    THEN CHOOSE i \in 1..Len(s) : s[i] = c /\ \A j \in 1..(i-1) : s[j] # c
    ELSE 0

\* s.split(c), for a one-character separator c
RECURSIVE Split(_, _)
Split(s, c) ==
  IF ~HasChar(c, s)
    THEN <<s>>
    ELSE <<SubSeq(s, 1, FindChar(c, s) - 1)>>
           \o Split(SubSeq(s, FindChar(c, s) + 1, Len(s)), c)

\* c.join(parts)
RECURSIVE Join(_, _)
Join(parts, c) ==
  IF Len(parts) = 0 THEN <<>>
  ELSE IF Len(parts) = 1 THEN parts[1]
  ELSE parts[1] \o <<c>> \o Join(Tail(parts), c)

\* ord(c), for the space, the comma and the ASCII letters (ASCII order)
AsciiOrder ==
  << " ", ",",
     "A","B","C","D","E","F","G","H","I","J","K","L","M",
     "N","O","P","Q","R","S","T","U","V","W","X","Y","Z",
     "a","b","c","d","e","f","g","h","i","j","k","l","m",
     "n","o","p","q","r","s","t","u","v","w","x","y","z" >>

OrdMap ==
  [c \in { AsciiOrder[i] : i \in 1..Len(AsciiOrder) } |->
     CHOOSE i \in 1..Len(AsciiOrder) : AsciiOrder[i] = c]

Ord(c) == OrdMap[c]

\* s < t for two str (lexicographic on code points)
RECURSIVE StrLess(_, _)
StrLess(s, t) ==
  IF Len(t) = 0 THEN FALSE
  ELSE IF Len(s) = 0 THEN TRUE
  ELSE IF Ord(s[1]) < Ord(t[1]) THEN TRUE
  ELSE IF Ord(s[1]) > Ord(t[1]) THEN FALSE
  ELSE StrLess(Tail(s), Tail(t))

\* sorted(S) for a set S of str
RECURSIVE Sorted(_)
Sorted(S) ==
  IF S = {} THEN <<>>
  ELSE LET m == CHOOSE x \in S : \A y \in S \ {x} : StrLess(x, y)
       IN  <<m>> \o Sorted(S \ {m})

\* set(l) for a list l
ToSet(l) == { l[i] : i \in 1..Len(l) }

(***************************************************************************)
(* Python dict operations: a dict is a function on its set of keys.        *)
(***************************************************************************)
\* d[k] = v
DictSet(d, k, v) == [x \in (DOMAIN d) \cup {k} |-> IF x = k THEN v ELSE d[x]]

\* max(d.values())
MaxValue(d) == CHOOSE m \in { d[k] : k \in DOMAIN d } : \A k \in DOMAIN d : d[k] <= m

\* for a in names: d[a] = v
RECURSIVE DictSetAll(_, _, _)
DictSetAll(d, names, v) ==
  IF Len(names) = 0 THEN d
  ELSE DictSetAll(DictSet(d, names[1], v), Tail(names), v)

(***************************************************************************)
(* Python values: str, list of str, and tuple of values.                   *)
(***************************************************************************)
Str(s) == [t |-> "str", v |-> s]
List(l) == [t |-> "list", v |-> l]
Tuple(x) == [t |-> "tuple", v |-> x]

\* the result of evaluating an expression: a value, or the exception raised
Val(x) == [err |-> "", val |-> x]
Raise(e) == [err |-> e, val |-> Str(<<>>)]

(***************************************************************************)
(* The names and values of the model.                                      *)
(***************************************************************************)
s_head == <<"h","e","a","d">>
s_Head == <<"H","e","a","d">>
s_HEAD == <<"H","E","A","D">>
s_translation == <<"t","r","a","n","s","l","a","t","i","o","n">>
s_TRANSLATION == <<"T","R","A","N","S","L","A","T","I","O","N">>
s_gloss == <<"g","l","o","s","s">>
s_GLOSS == <<"G","L","O","S","S">>
s_Gloss == <<"G","l","o","s","s">>
s_tokens == <<"t","o","k","e","n","s">>
s_Tokens == <<"T","o","k","e","n","s">>
s_pos == <<"p","o","s">>
s_head_translation == s_head \o <<",">> \o s_translation
s_head_pos == s_head \o <<",">> \o s_pos

\* the row keys, in the iteration order of the row store
RowKeys == <<1, 3>>

KeySet == { RowKeys[i] : i \in 1..Len(RowKeys) }

(***************************************************************************)
(* The tokenizer (lingpy.sequence.tokenizer.Tokenizer, an external         *)
(* collaborator): the graphemes of the string, joined by single spaces.    *)
(***************************************************************************)
TokenizerTokenize(x) == Join([i \in 1..Len(x) |-> <<x[i]>>], " ")

(***************************************************************************)
(* The transforms passed as the function argument.                         *)
(*   "suffix"   lambda s, **kw: s + kw.get("suffix", "x")                  *)
(*   "second"   lambda s: s[1]                                             *)
(*   "concat"   lambda row, idxs: row[idxs[0]] + row[idxs[1]]              *)
(*   "tok_list" lambda x: t.tokenize(x).split(' ')      (tokenize)         *)
(*   "tok_str"  lambda x: t.tokenize(x)                 (tokenize)         *)
(***************************************************************************)
EmptyKw == [k \in {} |-> <<>>]

\* function(s, **keywords)
Apply1(function, s, keywords) ==
  CASE function = "suffix" ->
         IF DOMAIN keywords \subseteq {"suffix"}
           THEN IF s.t = "str"
                  THEN Val(Str(s.v \o (IF "suffix" \in DOMAIN keywords
                                         THEN keywords["suffix"] ELSE <<"x">>)))
                  ELSE Raise("TypeError")
           ELSE Raise("TypeError")
    [] function = "second" ->
         IF DOMAIN keywords # {} THEN Raise("TypeError")
         ELSE IF Len(s.v) < 2 THEN Raise("IndexError")
         ELSE IF s.t = "str" THEN Val(Str(<<s.v[2]>>))
         ELSE Val(Str(s.v[2]))
    [] function = "tok_list" ->
         IF DOMAIN keywords # {} \/ s.t # "str" THEN Raise("TypeError")
         ELSE Val(List(Split(TokenizerTokenize(s.v), " ")))
    [] function = "tok_str" ->
         IF DOMAIN keywords # {} \/ s.t # "str" THEN Raise("TypeError")
         ELSE Val(Str(TokenizerTokenize(s.v)))
    [] OTHER -> Raise("TypeError")

\* function(row, idxs); idxs are Python (0-based) indices
Apply2(function, row, idxs) ==
  IF function # "concat" THEN Raise("TypeError")
  ELSE IF Len(idxs) < 2 THEN Raise("IndexError")
  ELSE IF idxs[1] >= Len(row) \/ idxs[2] >= Len(row) THEN Raise("IndexError")
  ELSE IF row[idxs[1] + 1].t # row[idxs[2] + 1].t THEN Raise("TypeError")
  ELSE Val([t |-> row[idxs[1] + 1].t,
            v |-> row[idxs[1] + 1].v \o row[idxs[2] + 1].v])

(***************************************************************************)
(* add_entries.  The Dictionary is the record                              *)
(*   d = [_header, header, _alias, _alias2, entries, _data];               *)
(* a source is [t |-> "str", v |-> name(s)] or [t |-> "dict", v |-> map].  *)
(* The result of a call is the Dictionary it leaves behind and how it      *)
(* ended:                                                                  *)
(*   outcome  "ok", "noop" (empty entry), "aborted" (the user declined),   *)
(*            or the name of the exception that ended the call;            *)
(*   stage    where the exception was raised: "prompt", "registry",        *)
(*            "source" (resolving the source names) or "rows" (in the      *)
(*            loop over the rows); "" without exception;                   *)
(*   path     the branch that ran: "none", "create" or "replace";          *)
(*   used     the number of answers read by input();                       *)
(*   retried  the call went through the retry of line 189;                 *)
(*   writes   per row key, how many values the call stored in the row.     *)
(***************************************************************************)
SrcStr(s) == [t |-> "str", v |-> s]
SrcDict(m) == [t |-> "dict", v |-> m]

ZeroWrites == [k \in KeySet |-> 0]

Result(d, outcome, stage, path, writes) ==
  [d |-> d, outcome |-> outcome, stage |-> stage, path |-> path,
   used |-> 0, retried |-> FALSE, writes |-> writes]

\* a create branch that derives the value and leaves the row as it is
StoreAppendDrops(row, rIdx, t) == Val(row)

\* self[key].append(t)
StoreAppend(row, rIdx, t) == Val(Append(row, t))

\* a replace branch that appends as the create branch does
StoreSetAppends(row, rIdx, t) == Val(Append(row, t))

\* self[key][rIdx] = t
StoreSet(row, rIdx, t) ==
  IF rIdx >= Len(row) THEN Raise("IndexError")
  ELSE Val([row EXCEPT ![rIdx + 1] = t])

Store(mode, row, rIdx, t) ==
  IF mode = "append" THEN StoreAppend(row, rIdx, t) ELSE StoreSet(row, rIdx, t)

\* a mapping source that stands in the empty string for a key it lacks
DeriveDefaultsMissing(job, data, key) ==
  CASE job.kind = "multi" -> Apply2(job.function, data[key], job.idxs)
    [] job.kind = "dict" ->
         Apply1(job.function,
                IF key \in DOMAIN job.src THEN job.src[key] ELSE Str(<<>>),
                EmptyKw)
    [] OTHER ->
         IF job.idx >= Len(data[key]) THEN Raise("IndexError")
         ELSE Apply1(job.function, data[key][job.idx + 1], job.keywords)

\* the value derived for one row: function(s, idxs), function(source[key])
\* or function(self[key][idx], **keywords)
Derive(job, data, key) ==
  CASE job.kind = "multi" -> Apply2(job.function, data[key], job.idxs)
    [] job.kind = "dict" ->
         IF key \notin DOMAIN job.src THEN Raise("KeyError")
         ELSE Apply1(job.function, job.src[key], EmptyKw)
    [] OTHER ->
         IF job.idx >= Len(data[key]) THEN Raise("IndexError")
         ELSE Apply1(job.function, data[key][job.idx + 1], job.keywords)

\* for key in self: ... ; an exception ends the loop where it is raised and
\* leaves the rows stored so far as they are
RECURSIVE RowLoop(_, _, _, _)
RowLoop(job, data, keys, writes) ==
  IF Len(keys) = 0 THEN [data |-> data, err |-> "", writes |-> writes]
  ELSE
    LET key == Head(keys)
        t == Derive(job, data, key)
    IN  IF t.err # "" THEN [data |-> data, err |-> t.err, writes |-> writes]
        ELSE
          LET st == Store(job.mode, data[key], job.rIdx, t.val)
          IN  IF st.err # ""
                THEN [data |-> data, err |-> st.err, writes |-> writes]
                ELSE RowLoop(job, [data EXCEPT ![key] = st.val], Tail(keys),
                             [writes EXCEPT ![key] = @ + 1])

Job(kind, src, idxs, idx, function, keywords, mode, rIdx) ==
  [kind |-> kind, src |-> src, idxs |-> idxs, idx |-> idx,
   function |-> function, keywords |-> keywords, mode |-> mode, rIdx |-> rIdx]

\* the source dispatch and the loop over the rows, shared in shape by the
\* create branch (mode "append") and the replace branch (mode "set")
FillColumn(d, source, function, keywords, mode, rIdx, path) ==
  LET run(job) ==
        LET r == RowLoop(job, d._data, RowKeys, ZeroWrites)
        IN  Result([d EXCEPT !._data = r.data],
                   IF r.err = "" THEN "ok" ELSE r.err,
                   IF r.err = "" THEN "" ELSE "rows", path, r.writes)
  IN
  IF source.t = "str" /\ HasChar(",", source.v)
    THEN LET sources == Split(source.v, ",")
         IN  IF \E i \in 1..Len(sources) : sources[i] \notin DOMAIN d._header
               THEN Result(d, "KeyError", "source", path, ZeroWrites)
               ELSE run(Job("multi", <<>>,
                            [i \in 1..Len(sources) |-> d._header[sources[i]]],
                            0, function, keywords, mode, rIdx))
  ELSE IF source.t = "dict"
    THEN run(Job("dict", source.v, <<>>, 0, function, keywords, mode, rIdx))
  ELSE IF source.v \notin DOMAIN d._header
    THEN Result(d, "KeyError", "source", path, ZeroWrites)
    ELSE run(Job("single", <<>>, <<>>, d._header[source.v],
                 function, keywords, mode, rIdx))

\* lines 208-211: add a new alias if this is not specified
RegisterAliases(d, entry) ==
  LET low == Lower(entry)
  IN  IF low \notin DOMAIN d._alias2
        THEN [d EXCEPT
                !._alias2 = DictSet(@, low, <<low, Upper(entry)>>),
                !._alias = DictSet(DictSet(@, low, low), Upper(entry), low)]
        ELSE d

\* lines 206-226: register the column under a new index
Register(d, entry) ==
  LET d1 == RegisterAliases(d, entry)
      name == d1._alias[Lower(entry)]
      newIdx == MaxValue(d1._header) + 1
      hdr == DictSetAll(d1._header, d1._alias2[name], newIdx)
  IN  [d1 EXCEPT !._header = hdr,
                 !.header = DictSet(@, name, hdr[name]),
                 !.entries = Sorted(ToSet(@ \o <<entry>>))]

\* lines 204-268: the create branch; max() of no value at all (line 217) is a
\* ValueError, raised after the aliases of lines 208-211 are in place
Create(d, entry, source, function, keywords) ==
  IF DOMAIN d._header = {}
    THEN Result(RegisterAliases(d, entry), "ValueError", "registry", "create",
                ZeroWrites)
    ELSE FillColumn(Register(d, entry), source, function, keywords,
                    "append", 0, "create")

\* lines 270-315: the replace branch
Replace(d, entry, source, function, keywords) ==
  IF Lower(entry) \notin DOMAIN d._header
    THEN Result(d, "KeyError", "registry", "replace", ZeroWrites)
    ELSE FillColumn(d, source, function, keywords, "set",
                    d._header[Lower(entry)], "replace")

\* answer.lower() in ['y','yes','j']
IsYes(answer) == Lower(answer) \in { <<"y">>, <<"y","e","s">>, <<"j">> }

RECURSIVE AddEntries(_, _, _, _, _, _, _)

\* an add_entries without the check for an empty entry of lines 183-185
AddEntriesAnyName(d, entry, source, function, override, keywords, answers) ==
  IF entry \notin DOMAIN d.header /\ override
    THEN [AddEntries(d, entry, source, function, FALSE, EmptyKw, answers)
            EXCEPT !.retried = TRUE]
  ELSE IF entry \in DOMAIN d._header /\ ~override
    THEN IF Len(answers) = 0
           THEN Result(d, "EOFError", "prompt", "none", ZeroWrites)
         ELSE IF IsYes(Head(answers))
           THEN [AddEntries(d, entry, source, function, TRUE, keywords,
                            Tail(answers))
                   EXCEPT !.used = @ + 1]
         ELSE [Result(d, "aborted", "", "none", ZeroWrites) EXCEPT !.used = 1]
  ELSE IF ~override
    THEN Create(d, entry, source, function, keywords)
  ELSE Replace(d, entry, source, function, keywords)

AddEntries(d, entry, source, function, override, keywords, answers) ==
  IF Len(entry) = 0
    THEN Result(d, "noop", "", "none", ZeroWrites)
  ELSE IF entry \notin DOMAIN d.header /\ override
    THEN [AddEntries(d, entry, source, function, FALSE, EmptyKw, answers)
            EXCEPT !.retried = TRUE]
  ELSE IF entry \in DOMAIN d._header /\ ~override
    THEN IF Len(answers) = 0
           THEN Result(d, "EOFError", "prompt", "none", ZeroWrites)
         ELSE IF IsYes(Head(answers))
           THEN [AddEntries(d, entry, source, function, TRUE, keywords,
                            Tail(answers))
                   EXCEPT !.used = @ + 1]
         ELSE [Result(d, "aborted", "", "none", ZeroWrites) EXCEPT !.used = 1]
  ELSE IF ~override
    THEN Create(d, entry, source, function, keywords)
  ELSE Replace(d, entry, source, function, keywords)

(***************************************************************************)
(* tokenize (lines 317-364) and get_tuples (lines 109-142).                *)
(***************************************************************************)
Tokenize(d, source, target, answers) ==
  AddEntries(d, target, SrcStr(source),
             IF target = s_tokens THEN "tok_list" ELSE "tok_str",
             FALSE, EmptyKw, answers)

\* the value is the list returned: single values for one resolved column,
\* tuples for more than one, and the empty list for none; a tuple of values
\* is told from a single value by its tag
GetTuples(d, columns) ==
  LET known == SelectSeq(columns, LAMBDA e : e \in DOMAIN d._header)
      idxs == [i \in 1..Len(known) |-> d._header[known[i]]]
      rows == [i \in 1..Len(RowKeys) |-> d._data[RowKeys[i]]]
  IN  IF Len(idxs) = 0 THEN Val(<<>>)
      ELSE IF \E i \in 1..Len(rows), j \in 1..Len(idxs) : idxs[j] >= Len(rows[i])
        THEN Raise("IndexError")
      ELSE IF Len(idxs) = 1
        THEN Val([i \in 1..Len(rows) |-> rows[i][idxs[1] + 1]])
      ELSE Val([i \in 1..Len(rows) |->
                  Tuple([j \in 1..Len(idxs) |-> rows[i][idxs[j] + 1]])])

(***************************************************************************)
(* The state machine.                                                      *)
(***************************************************************************)
\* the Dictionary of the current state
Dict ==
  [_header |-> _header, header |-> header, _alias |-> _alias,
   _alias2 |-> _alias2, entries |-> entries, _data |-> _data]

\* the rows as the parser leaves them: head and translation of two entries
Init_data ==
  (1 :> <<Str(<<"a","b">>), Str(<<"c">>)>>) @@ (3 :> <<Str(<<"d">>), Str(<<"e">>)>>)

\* the Dictionary as the parser leaves it: two columns, "translation" with
\* the further alias "gloss", two rows
Init ==
  /\ header = (s_head :> 0) @@ (s_translation :> 1)
  /\ _header = (s_head :> 0) @@ (s_HEAD :> 0) @@ (s_translation :> 1)
                 @@ (s_TRANSLATION :> 1) @@ (s_gloss :> 1) @@ (s_GLOSS :> 1)
  /\ _alias = (s_head :> s_head) @@ (s_HEAD :> s_head)
                @@ (s_translation :> s_translation)
                @@ (s_TRANSLATION :> s_translation)
                @@ (s_gloss :> s_translation) @@ (s_GLOSS :> s_translation)
  /\ _alias2 = (s_head :> <<s_head, s_HEAD>>)
                 @@ (s_translation :>
                       <<s_translation, s_TRANSLATION, s_gloss, s_GLOSS>>)
  /\ entries = Sorted({s_head, s_translation})
  /\ _data = Init_data
  /\ call = [op |-> "init", entry |-> <<>>, source |-> SrcStr(<<>>),
             function |-> "", override |-> FALSE, keywords |-> EmptyKw,
             answers |-> <<>>, outcome |-> "", stage |-> "", path |-> "none",
             retried |-> FALSE, writes |-> ZeroWrites,
             columns |-> <<>>, tuples |-> Val(<<>>)]
  /\ failed = FALSE
  /\ ncalls = 0

\* a Dictionary read from a file whose header line names no column: no
\* column is registered and the two rows hold no value
InitEmpty ==
  /\ header = <<>>
  /\ _header = <<>>
  /\ _alias = <<>>
  /\ _alias2 = <<>>
  /\ entries = <<>>
  /\ _data = (1 :> <<>>) @@ (3 :> <<>>)
  /\ call = [op |-> "init", entry |-> <<>>, source |-> SrcStr(<<>>),
             function |-> "", override |-> FALSE, keywords |-> EmptyKw,
             answers |-> <<>>, outcome |-> "", stage |-> "", path |-> "none",
             retried |-> FALSE, writes |-> ZeroWrites,
             columns |-> <<>>, tuples |-> Val(<<>>)]
  /\ failed = FALSE
  /\ ncalls = 0

\* the inputs of the calls
EntryInputs == { <<>>, s_head, s_HEAD, s_Head, s_tokens, s_Gloss }

MappingFull == (1 :> Str(<<"x">>)) @@ (3 :> Str(<<"e">>))
MappingPartial == (1 :> Str(<<"x">>))

\* <<source, function, keywords>>
TransformInputs ==
  { <<SrcStr(s_head), "suffix", EmptyKw>>,
    <<SrcStr(s_head), "suffix", "suffix" :> <<"s">> >>,
    <<SrcStr(s_head), "second", EmptyKw>>,
    <<SrcStr(s_translation), "suffix", EmptyKw>>,
    <<SrcStr(s_pos), "suffix", EmptyKw>> }
  \cup ( { SrcStr(s_head_translation), SrcStr(s_head_pos) }
           \X { "concat" } \X { EmptyKw } )
  \cup ( { SrcDict(MappingFull), SrcDict(MappingPartial) }
           \X { "suffix" } \X { EmptyKw } )

\* the answers typed at the prompts of one call: input() is not called again
\* after a "n", so the answers are some "y" and then at most one "n"
AnswerInputs ==
  { [i \in 1..n |-> <<"y">>] : n \in 0..MaxAnswers }
    \cup { [i \in 1..n |-> IF i < n THEN <<"y">> ELSE <<"n">>] : n \in 1..MaxAnswers }

\* input() is reached only from line 197, with the registry as the call found
\* it: for a name in _header that comes without override, or with an override
\* that line 189 turns into a call without; any other call reads no answer
AnswersFor(entry, override) ==
  IF entry \in DOMAIN _header /\ (~override \/ entry \notin DOMAIN header)
    THEN AnswerInputs
    ELSE { <<>> }

ColumnInputs ==
  { <<s_head>>, <<s_translation>>, <<s_head, s_translation>>,
    <<s_tokens>>, <<s_head, s_pos>> }

Commit(r) ==
  /\ _header' = r.d._header
  /\ header' = r.d.header
  /\ _alias' = r.d._alias
  /\ _alias2' = r.d._alias2
  /\ entries' = r.d.entries
  /\ _data' = r.d._data
  /\ failed' = (failed \/ r.outcome \notin { "ok", "noop", "aborted" })
  /\ ncalls' = ncalls + 1

AddEntriesCall ==
  /\ ncalls < MaxCalls
  /\ \E entry \in EntryInputs, tr \in TransformInputs,
        override \in BOOLEAN :
     \E answers \in AnswersFor(entry, override) :
       \E r \in { AddEntries(Dict, entry, tr[1], tr[2], override, tr[3], answers) } :
           /\ r.used = Len(answers)
           /\ Commit(r)
           /\ call' = [op |-> "add_entries", entry |-> entry, source |-> tr[1],
                       function |-> tr[2], override |-> override,
                       keywords |-> tr[3],
                       answers |-> SubSeq(answers, 1, r.used),
                       outcome |-> r.outcome, stage |-> r.stage,
                       path |-> r.path, retried |-> r.retried,
                       writes |-> r.writes,
                       columns |-> <<>>, tuples |-> Val(<<>>)]

TokenizeCall ==
  /\ ncalls < MaxCalls
  /\ \E source \in { s_head, s_pos }, target \in { s_tokens, s_Tokens, s_head } :
     \E answers \in AnswersFor(target, FALSE) :
       \E r \in { Tokenize(Dict, source, target, answers) } :
           /\ r.used = Len(answers)
           /\ Commit(r)
           /\ call' = [op |-> "tokenize", entry |-> target,
                       source |-> SrcStr(source),
                       function |-> IF target = s_tokens
                                      THEN "tok_list" ELSE "tok_str",
                       override |-> FALSE, keywords |-> EmptyKw,
                       answers |-> SubSeq(answers, 1, r.used),
                       outcome |-> r.outcome, stage |-> r.stage,
                       path |-> r.path, retried |-> r.retried,
                       writes |-> r.writes,
                       columns |-> <<>>, tuples |-> Val(<<>>)]

\* get_tuples reads the Dictionary and changes nothing
GetTuplesCall ==
  /\ ncalls < MaxCalls
  /\ \E columns \in ColumnInputs :
       \E r \in { GetTuples(Dict, columns) } :
           /\ call' = [op |-> "get_tuples", entry |-> <<>>,
                       source |-> SrcStr(<<>>), function |-> "",
                       override |-> FALSE, keywords |-> EmptyKw,
                       answers |-> <<>>,
                       outcome |-> IF r.err = "" THEN "ok" ELSE r.err,
                       stage |-> "", path |-> "none", retried |-> FALSE,
                       writes |-> ZeroWrites,
                       columns |-> columns, tuples |-> r]
           /\ failed' = (failed \/ r.err # "")
           /\ ncalls' = ncalls + 1
           /\ UNCHANGED <<_header, header, _alias, _alias2, entries, _data>>

Next == AddEntriesCall \/ TokenizeCall \/ GetTuplesCall

Spec == Init /\ [][Next]_vars

\* the runs of a Dictionary that starts without a column
SpecEmpty == InitEmpty /\ [][Next]_vars

(***************************************************************************)
(* Properties.                                                             *)
(***************************************************************************)
IsCall == call.op \in { "add_entries", "tokenize" }

\* the column index a spelling resolves to, through its canonical name
ColumnIndex(hdr, alias, entry) == hdr[alias[Lower(entry)]]

\* C1: row-width invariant.  As long as every call completed without an
\* exception, every row holds as many values as header has canonical names.
C1_RowWidth ==
  ~failed => \A k \in KeySet : Len(_data[k]) = Cardinality(DOMAIN header)

\* C2: alias-consistency invariant.  Every alias listed in _alias2[n] is a key
\* of _header and maps to the index of n, which is header[n].
C2_AliasConsistency ==
  \A n \in DOMAIN _alias2 :
    /\ n \in DOMAIN header
    /\ n \in DOMAIN _header
    /\ header[n] = _header[n]
    /\ \A i \in 1..Len(_alias2[n]) :
         /\ _alias2[n][i] \in DOMAIN _header
         /\ _header[_alias2[n][i]] = _header[n]

\* a step that is a call of add_entries, directly or through tokenize
CallStep == call'.op \in { "add_entries", "tokenize" }

\* the source of the call of this step names registered columns only, or is
\* a mapping with a value for every row key
SourceResolvable ==
  IF call'.source.t = "dict"
    THEN KeySet \subseteq DOMAIN call'.source.v
    ELSE \A i \in 1..Len(Split(call'.source.v, ",")) :
           Split(call'.source.v, ",")[i] \in DOMAIN _header

\* every row has got one value stored at (0-based) index idx and is otherwise
\* as it was
WrittenAt(idx) ==
  \A k \in KeySet :
    /\ call'.writes[k] = 1
    /\ Len(_data'[k]) = Len(_data[k])
    /\ idx < Len(_data[k])
    /\ \A i \in 1..Len(_data[k]) : i # idx + 1 => _data'[k][i] = _data[k][i]

\* C3: a call without override for a registered name that the user declines
\* changes nothing, and the next call with the same name and override = True
\* succeeds: it asks nothing, stores a value in every row at the column's
\* index and leaves the registry as it is.
C3_ColumnExists ==
  [][ /\ ( /\ call'.op = "add_entries"
           /\ ~call'.override
           /\ call'.entry \in DOMAIN _header
           /\ call'.outcome = "aborted" )
         => UNCHANGED <<registry, _data>>
      /\ ( /\ call.op = "add_entries"
           /\ ~call.override
           /\ call.outcome = "aborted"
           /\ call'.op = "add_entries"
           /\ call'.entry = call.entry
           /\ call'.override
           /\ SourceResolvable
           /\ call'.stage # "rows" )
         => /\ call'.outcome = "ok"
            /\ call'.path = "replace"
            /\ call'.answers = <<>>
            /\ UNCHANGED registry
            /\ WrittenAt(_header[call.entry])
    ]_vars

\* C4: frame of the replace path.  A call that runs the replace branch leaves
\* _header, header, _alias, _alias2 and entries unchanged, leaves the length
\* of every row unchanged and changes no value of a row at an index other than
\* the index of the replaced column.
C4_ReplaceFrame ==
  [][ (CallStep /\ call'.path = "replace")
        => /\ UNCHANGED registry
           /\ \A k \in KeySet :
                /\ Len(_data'[k]) = Len(_data[k])
                /\ \A i \in 1..Len(_data[k]) :
                     i # _header[Lower(call'.entry)] + 1
                       => _data'[k][i] = _data[k][i]
    ]_vars

\* a replace call has run to its end and stored one value in every row
C4_Witness ==
  /\ IsCall
  /\ call.path = "replace"
  /\ call.outcome = "ok"
  /\ \A k \in KeySet : call.writes[k] = 1

\* the (0-based) indices of the columns named by a comma-separated source
SourceIndices(hdr, source) ==
  [i \in 1..Len(Split(source, ",")) |-> hdr[Split(source, ",")[i]]]

\* C5: multi-column source.  After a successful add_entries whose source is
\* a comma-separated list of registered names, every row holds in the target
\* column the transform of that row as it was before the call and the list of
\* the source columns' indices in the order named, and every row was visited
\* once; the transform here concatenates the named columns of the row.
C5_MultiSource ==
  [][ ( /\ call'.op = "add_entries"
        /\ call'.source.t = "str"
        /\ HasChar(",", call'.source.v)
        /\ SourceResolvable
        /\ call'.outcome = "ok" )
        => \A k \in KeySet :
             /\ call'.writes[k] = 1
             /\ ColumnIndex(header', _alias', call'.entry) < Len(_data'[k])
             /\ _data'[k][ColumnIndex(header', _alias', call'.entry) + 1]
                  = Apply2(call'.function, _data[k],
                           SourceIndices(_header, call'.source.v)).val
    ]_vars

\* get_tuples(["head"]) gives one value per row, in the order of the rows,
\* and get_tuples(["head","translation"]) pairs, position by position, the
\* values of get_tuples(["head"]) and get_tuples(["translation"])
ProjectionAligned ==
  LET h == GetTuples(Dict, <<s_head>>)
      tr == GetTuples(Dict, <<s_translation>>)
      ht == GetTuples(Dict, <<s_head, s_translation>>)
  IN  /\ h.err = "" /\ tr.err = "" /\ ht.err = ""
      /\ Len(h.val) = Len(RowKeys)
      /\ Len(ht.val) = Len(RowKeys)
      /\ \A i \in 1..Len(RowKeys) :
           /\ h.val[i] = _data[RowKeys[i]][_header[s_head] + 1]
           /\ ht.val[i] = Tuple(<<h.val[i], tr.val[i]>>)

\* C6: projection alignment.  Every state a step leads to has the aligned
\* projections, and a call of get_tuples changes neither the registry nor a
\* row.
C6_ProjectionAlignment ==
  [][ /\ ProjectionAligned'
      /\ call'.op = "get_tuples" => UNCHANGED <<registry, _data>>
    ]_vars

\* C7: tokenize is add_entries without override with the tokenizer as the
\* transform: on a Dictionary without a "tokens" column, a tokenize that
\* completes and leaves a "tokens" column leaves a token sequence, not a plain
\* string, as every row's "tokens" value; and a tokenize that overwrites an
\* existing column has gone through the conflict decision.
C7_Tokenize ==
  [][ call'.op = "tokenize"
        => /\ ( /\ s_tokens \notin DOMAIN _header
                /\ call'.outcome = "ok"
                /\ s_tokens \in DOMAIN header' )
              => \A k \in KeySet :
                   /\ header'[s_tokens] < Len(_data'[k])
                   /\ _data'[k][header'[s_tokens] + 1].t = "list"
           /\ call'.path = "replace" => Len(call'.answers) >= 1
    ]_vars

\* C8: no visible mutation on an unresolvable source.  A call ended by the
\* KeyError of a source name that is not registered leaves _header, header,
\* _alias, _alias2, entries and every row as they were.
C8_UnresolvableSource ==
  [][ (CallStep /\ call'.outcome = "KeyError" /\ call'.stage = "source")
        => UNCHANGED <<registry, _data>>
    ]_vars

\* C9: all-or-nothing row update.  A call ended by an exception raised while
\* iterating over the rows has stored a value in no row or in every row, and
\* leaves the registry as it was.
C9_AllOrNothing ==
  [][ (CallStep /\ call'.stage = "rows")
        => /\ UNCHANGED registry
           /\ \/ \A k \in KeySet : call'.writes[k] = 0
              \/ \A k \in KeySet : call'.writes[k] = 1
    ]_vars

\* C10: index stability.  A canonical name bound to an index stays bound to
\* it, as does every spelling in _header; and a call without override whose
\* name is a spelling (in any letter case) of a registered column appends no
\* value to a row.
C10_IndexStability ==
  [][ /\ \A n \in DOMAIN header :
           n \in DOMAIN header' /\ header'[n] = header[n]
      /\ \A a \in DOMAIN _header :
           a \in DOMAIN _header' /\ _header'[a] = _header[a]
      /\ ( /\ call'.op = "add_entries"
           /\ ~call'.override
           /\ Lower(call'.entry) \in DOMAIN _header )
         => \A k \in KeySet : Len(_data'[k]) = Len(_data[k])
    ]_vars

\* C11: a call with override = True whose name is any registered spelling of
\* a column (its canonical lowercase name or an alias such as the uppercase
\* form) takes the replace path directly: it asks for no confirmation, assigns
\* no new index, and, unless the source or the transform fails, overwrites
\* every row at the column's existing index.
C11_OverrideAnySpelling ==
  [][ ( /\ call'.op = "add_entries"
        /\ call'.override
        /\ call'.entry \in DOMAIN _header )
        => /\ call'.path = "replace"
           /\ ~call'.retried
           /\ call'.answers = <<>>
           /\ call'.stage # "prompt"
           /\ UNCHANGED registry
           /\ (SourceResolvable /\ call'.stage # "rows")
                => /\ call'.outcome = "ok"
                   /\ WrittenAt(_header[call'.entry])
    ]_vars

\* the registry and the rows of a Dictionary d are those of the next state
LeavesAs(d) ==
  /\ _header' = d._header
  /\ header' = d.header
  /\ _alias' = d._alias
  /\ _alias2' = d._alias2
  /\ entries' = d.entries
  /\ _data' = d._data

\* C12: override on an unknown column is a plain add.  A call with
\* override = True for a name that is not registered leaves the registry and
\* the rows that the call with the same name, source, transform and options
\* and override = False leaves from the same state, and ends as it ends.
C12_OverrideUnknown ==
  [][ ( /\ call'.op = "add_entries"
        /\ call'.override
        /\ call'.entry \notin DOMAIN _header )
        => \E r \in { AddEntries(Dict, call'.entry, call'.source,
                                 call'.function, FALSE, call'.keywords, <<>>) } :
             /\ LeavesAs(r.d)
             /\ call'.outcome = r.outcome
    ]_vars

\* C13: a confirmed conflict is an override.  A call without override for a
\* registered name that is answered "y" leaves the registry and the rows that
\* the direct call with the same name, source, transform and options and
\* override = True leaves from the same state (reading what is left of the
\* input), and, unless the source or the transform fails, it has stored
\* exactly one value in every row.
C13_ConfirmedConflict ==
  [][ ( /\ call'.op = "add_entries"
        /\ ~call'.override
        /\ call'.entry \in DOMAIN _header
        /\ Len(call'.answers) >= 1
        /\ IsYes(call'.answers[1]) )
        => /\ \E r \in { AddEntries(Dict, call'.entry, call'.source,
                                    call'.function, TRUE, call'.keywords,
                                    Tail(call'.answers)) } :
                LeavesAs(r.d)
           /\ (SourceResolvable /\ call'.stage # "rows")
                => \A k \in KeySet : call'.writes[k] = 1
    ]_vars

\* C14: external-mapping source.  A call whose source is a mapping and that
\* completes has stored, in every row, the transform of the mapping's value
\* for the row's key: appended to the row on the create path, at the column's
\* index on the replace path.  A call that reaches either path with a mapping
\* lacking the key of some row ends in an exception raised in the loop over
\* the rows, and has stored no value in a row whose key is lacking.
C14_MappingSource ==
  [][ (CallStep /\ call'.source.t = "dict" /\ call'.path # "none")
        => /\ call'.outcome = "ok"
                => \A k \in KeySet :
                     /\ k \in DOMAIN call'.source.v
                     /\ call'.writes[k] = 1
                     /\ IF call'.path = "create"
                          THEN _data'[k]
                                 = Append(_data[k],
                                          Apply1(call'.function,
                                                 call'.source.v[k], EmptyKw).val)
                          ELSE _data'[k]
                                 = [_data[k] EXCEPT
                                      ![_header[Lower(call'.entry)] + 1]
                                        = Apply1(call'.function,
                                                 call'.source.v[k], EmptyKw).val]
           /\ ~(KeySet \subseteq DOMAIN call'.source.v)
                => /\ call'.outcome \notin { "ok", "noop", "aborted" }
                   /\ call'.stage = "rows"
                   /\ \A k \in KeySet \ DOMAIN call'.source.v :
                        /\ call'.writes[k] = 0
                        /\ _data'[k] = _data[k]
    ]_vars

\* a replace call with a mapping source has ended at the row whose key the
\* mapping lacks, after storing the value of a row whose key it has
C14_Witness ==
  /\ IsCall
  /\ call.source.t = "dict"
  /\ call.path = "replace"
  /\ call.outcome = "KeyError"
  /\ call.stage = "rows"
  /\ \E k \in KeySet : call.writes[k] = 1
  /\ \E k \in KeySet : k \notin DOMAIN call.source.v /\ call.writes[k] = 0

\* C15: index assignment on create.  A call that takes the create branch
\* binds the canonical name of the new column and every alias of it to
\* max(existing indices) + 1, or to 0 when no column is registered yet, and
\* this index differs from the index of every other canonical name.
C15_IndexAssignment ==
  [][ (CallStep /\ call'.path = "create")
        => \E newIdx \in { IF DOMAIN _header = {} THEN 0
                           ELSE MaxValue(_header) + 1 } :
           \E name \in { _alias'[Lower(call'.entry)] } :
             /\ call'.stage # "registry"
             /\ name \in DOMAIN header'
             /\ header'[name] = newIdx
             /\ \A i \in 1..Len(_alias2'[name]) :
                  /\ _alias2'[name][i] \in DOMAIN _header'
                  /\ _header'[_alias2'[name][i]] = newIdx
             /\ \A n \in DOMAIN header' \ { name } : header'[n] # newIdx
    ]_vars

\* C16: the entries attribute.  In every state entries is sorted, holds no
\* name twice, and its elements are exactly the canonical (lowercase) column
\* names, the keys of header.
C16_Entries ==
  /\ \A i, j \in 1..Len(entries) : i < j => StrLess(entries[i], entries[j])
  /\ ToSet(entries) = DOMAIN header

\* C17: projection shape.  A get_tuples that returns gives single values
\* exactly when one column is requested, and, when more than one column is
\* requested, one tuple per row, all of one size; and a requested name that
\* is not in the registry makes no call end in an exception.
C17_ProjectionShape ==
  [][ call'.op = "get_tuples"
        => /\ call'.outcome = "ok"
                => /\ ( \A i \in 1..Len(call'.tuples.val) :
                          call'.tuples.val[i].t # "tuple" )
                      <=> Len(call'.columns) = 1
                   /\ Len(call'.columns) > 1
                        => /\ Len(call'.tuples.val) = Len(RowKeys)
                           /\ \A i, j \in 1..Len(call'.tuples.val) :
                                /\ call'.tuples.val[i].t = "tuple"
                                /\ Len(call'.tuples.val[i].v)
                                     = Len(call'.tuples.val[j].v)
           /\ ( \A k \in KeySet, i \in 1..Len(call'.columns) :
                  call'.columns[i] \in DOMAIN _header
                    => _header[call'.columns[i]] < Len(_data[k]) )
                => call'.outcome = "ok"
    ]_vars

\* C18: empty entry name.  A call of add_entries with the empty name, whatever
\* its source, transform, override and options, returns without an exception,
\* runs neither the create nor the replace branch, stores no value, and
\* leaves _header, header, _alias, _alias2, entries and every row unchanged.
C18_EmptyName ==
  [][ (call'.op = "add_entries" /\ Len(call'.entry) = 0)
        => /\ call'.outcome = "noop"
           /\ call'.stage = ""
           /\ call'.path = "none"
           /\ call'.answers = <<>>
           /\ \A k \in KeySet : call'.writes[k] = 0
           /\ failed' = failed
           /\ UNCHANGED <<registry, _data>>
    ]_vars

\* a call with the empty name, override = True, options and a source that
\* names a registered column has returned
C18_Witness ==
  /\ call.op = "add_entries"
  /\ Len(call.entry) = 0
  /\ call.override
  /\ call.keywords # EmptyKw
  /\ call.source = SrcStr(s_head)
  /\ call.outcome = "noop"

\* C19: readable-index invariant.  As long as every call completed without
\* an exception, every row has length max(_header.values()) + 1, so that
\* every index stored in _header is a position of every row.
C19_ReadableIndex ==
  ~failed
    => \A k \in KeySet :
         /\ Len(_data[k]) = MaxValue(_header) + 1
         /\ \A a \in DOMAIN _header : _header[a] < Len(_data[k])

\* a replace call has completed on rows that an earlier call, which created
\* a column, has made longer
C19_Witness ==
  /\ ~failed
  /\ IsCall
  /\ call.path = "replace"
  /\ call.outcome = "ok"
  /\ \A k \in KeySet : Len(_data[k]) = Len(Init_data[k]) + 1

====
